---- MODULE Spec2Model ----
(***************************************************************************)
(* Column layout of the list command (src/commands/list/layout.rs).        *)
(*                                                                         *)
(* calculate_responsive_layout reduces the rows to ideal column widths and *)
(* data flags (calculate_column_widths), then packs the columns into the   *)
(* terminal width in two passes with the message column placed between     *)
(* them, and finally walks the columns left to right to fix the absolute   *)
(* positions.  One action per statement group of that function.            *)
(***************************************************************************)
EXTENDS Integers, Sequences, FiniteSets, TLC

(* ------------------------------ bounds -------------------------------- *)

\* number of rows the scan loop may consume
MaxRows == 2

\* largest terminal width probed (get_terminal_width)
MaxWidth == 180

(* ----------------------------- constants ------------------------------ *)

COMMIT_HASH_WIDTH == 8

\* display widths (unicode_width) of the header labels
HEADER_BRANCH == 6
HEADER_WORKING_DIFF == 9
HEADER_AHEAD_BEHIND == 6
HEADER_BRANCH_DIFF == 6
HEADER_STATE == 5
HEADER_PATH == 4
HEADER_UPSTREAM == 8
HEADER_AGE == 3
HEADER_CI == 2
HEADER_COMMIT == 6
HEADER_MESSAGE == 7

spacing == 2
gap == 2
ci_status_width == 2
MIN_MESSAGE == 20
PREFERRED_MESSAGE == 50
MAX_MESSAGE == 100

\* commit message text is cut to this many characters before measuring
MESSAGE_TAKE == 50

(* ------------------------------ helpers ------------------------------- *)

Max(a, b) == IF a >= b THEN a ELSE b
Min(a, b) == IF a <= b THEN a ELSE b

\* usize::saturating_sub
saturating_sub(a, b) == IF a >= b THEN a - b ELSE 0

\* n.to_string().len() for an unsigned integer
RECURSIVE Digits(_)
Digits(n) == IF n < 10 THEN 1 ELSE 1 + Digits(n \div 10)

\* variant of fit_header that forgets the header: the data width as it is
fit_header_data_only(header, data_width) == data_width

fit_header(header, data_width) == Max(data_width, header)

\* variant of try_allocate that tests the budget against the column width
\* alone, so the charge for the gap can exceed what is left
try_allocate_gap_unchecked(remaining, ideal_width, space, is_first) ==
    LET required == IF is_first THEN ideal_width ELSE ideal_width + space
    IN  IF ideal_width = 0
          THEN [width |-> 0, remaining |-> remaining]
        ELSE IF remaining < ideal_width
          THEN [width |-> 0, remaining |-> remaining]
        ELSE [width |-> ideal_width,
              remaining |-> saturating_sub(remaining, required)]

\* variant of try_allocate with the budget comparison turned around
try_allocate_flipped(remaining, ideal_width, space, is_first) ==
    LET required == IF is_first THEN ideal_width ELSE ideal_width + space
    IN  IF ideal_width = 0
          THEN [width |-> 0, remaining |-> remaining]
        ELSE IF remaining > required
          THEN [width |-> 0, remaining |-> remaining]
        ELSE [width |-> ideal_width,
              remaining |-> saturating_sub(remaining, required)]

\* variant of try_allocate that squeezes a column into what is left instead
\* of hiding it
try_allocate_truncating(remaining, ideal_width, space, is_first) ==
    LET required == IF is_first THEN ideal_width ELSE ideal_width + space
        avail == IF is_first THEN remaining
                 ELSE saturating_sub(remaining, space)
    IN  IF ideal_width = 0
          THEN [width |-> 0, remaining |-> remaining]
        ELSE IF remaining < required
          THEN [width |-> avail, remaining |-> 0]
        ELSE [width |-> ideal_width,
              remaining |-> saturating_sub(remaining, required)]

\* variant of try_allocate that needs one column more than the charge
try_allocate_strict(remaining, ideal_width, space, is_first) ==
    LET required == IF is_first THEN ideal_width ELSE ideal_width + space
    IN  IF ideal_width = 0
          THEN [width |-> 0, remaining |-> remaining]
        ELSE IF remaining <= required
          THEN [width |-> 0, remaining |-> remaining]
        ELSE [width |-> ideal_width,
              remaining |-> saturating_sub(remaining, required)]

\* variant of try_allocate that charges the budget before testing it
try_allocate_charge_on_failure(remaining, ideal_width, space, is_first) ==
    LET required == IF is_first THEN ideal_width ELSE ideal_width + space
    IN  IF ideal_width = 0
          THEN [width |-> 0, remaining |-> remaining]
        ELSE IF remaining < required
          THEN [width |-> 0,
                remaining |-> saturating_sub(remaining, required)]
        ELSE [width |-> ideal_width,
              remaining |-> saturating_sub(remaining, required)]

try_allocate(remaining, ideal_width, space, is_first) ==
    LET required == IF is_first THEN ideal_width ELSE ideal_width + space
    IN  IF ideal_width = 0
          THEN [width |-> 0, remaining |-> remaining]
        ELSE IF remaining < required
          THEN [width |-> 0, remaining |-> remaining]
        ELSE [width |-> ideal_width,
              remaining |-> saturating_sub(remaining, required)]

(* ------------------------------ columns ------------------------------- *)

\* field order of ColumnPositions: the display order, left to right
ColumnOrder ==
    << "branch", "working_diff", "ahead_behind", "branch_diff", "states",
       "path", "upstream", "time", "ci_status", "commit", "message" >>

Columns == { ColumnOrder[i] : i \in 1..Len(ColumnOrder) }

\* columns whose width is a DiffWidths record
Composite == { "working_diff", "ahead_behind", "branch_diff", "upstream" }

\* statement order of pass 1 and of pass 2
Phase1Order ==
    << "branch", "working_diff", "ahead_behind", "branch_diff", "states",
       "path", "upstream", "time", "ci_status", "commit" >>

Phase2Order ==
    << "working_diff", "ahead_behind", "branch_diff", "states", "upstream",
       "ci_status" >>

DiffWidthsZero == [total |-> 0, added_digits |-> 0, deleted_digits |-> 0]

ZeroWidths ==
    [c \in Columns |-> IF c \in Composite THEN DiffWidthsZero ELSE 0]

ZeroPositions == [c \in Columns |-> 0]

NoFlags ==
    [working_diff |-> FALSE, ahead_behind |-> FALSE, branch_diff |-> FALSE,
     upstream |-> FALSE, states |-> FALSE, ci_status |-> FALSE]

\* total width of a column in a ColumnWidths value
WidthOf(w, c) == IF c \in Composite THEN w[c].total ELSE w[c]

HeaderOf(c) ==
    CASE c = "branch" -> HEADER_BRANCH
      [] c = "working_diff" -> HEADER_WORKING_DIFF
      [] c = "ahead_behind" -> HEADER_AHEAD_BEHIND
      [] c = "branch_diff" -> HEADER_BRANCH_DIFF
      [] c = "states" -> HEADER_STATE
      [] c = "path" -> HEADER_PATH
      [] c = "upstream" -> HEADER_UPSTREAM
      [] c = "time" -> HEADER_AGE
      [] c = "ci_status" -> HEADER_CI
      [] c = "commit" -> HEADER_COMMIT
      [] c = "message" -> HEADER_MESSAGE

(* ------------------------------- rows --------------------------------- *)

(* A ListItem as the layout sees it.  Text enters only through its display *)
(* width (branch name, relative time, state labels, shortened path) or its *)
(* character count (commit message).  kind = "Branch" rows have neither    *)
(* worktree_info() nor worktree_path().                                    *)
MkItem(kind, bw, tw, msg, primary, counts, wt, bd, up, st, pr, pw) ==
    [kind |-> kind, branch_name_w |-> bw, time_w |-> tw,
     message_chars |-> msg, is_primary |-> primary,
     counts |-> [ahead |-> counts[1], behind |-> counts[2]],
     working_tree_diff |-> wt, branch_diff |-> bd,
     upstream |-> [active |-> up[1], ahead |-> up[2], behind |-> up[3]],
     states_w |-> st, pr_status |-> pr, path_w |-> pw]

ItemMain ==
    MkItem("Worktree", 4, 3, 4, TRUE, <<0, 0>>, <<0, 0>>, <<0, 0>>,
           <<FALSE, 0, 0>>, 0, FALSE, 4)
ItemPlainBranch ==
    MkItem("Branch", 9, 10, 11, FALSE, <<0, 0>>, <<0, 0>>, <<0, 0>>,
           <<FALSE, 0, 0>>, 0, FALSE, 0)
ItemFeature ==
    MkItem("Worktree", 9, 10, 19, FALSE, <<5, 10>>, <<100, 50>>, <<200, 30>>,
           <<TRUE, 4, 2>>, 0, FALSE, 12)
ItemBig ==
    MkItem("Worktree", 24, 12, 72, FALSE, <<0, 0>>, <<12345, 678>>, <<0, 0>>,
           <<FALSE, 0, 0>>, 10, TRUE, 20)
ItemPrimaryDirty ==
    MkItem("Worktree", 6, 3, 50, TRUE, <<3, 2>>, <<0, 1>>, <<7, 7>>,
           <<TRUE, 0, 0>>, 0, FALSE, 4)
ItemBehindBranch ==
    MkItem("Branch", 12, 3, 30, FALSE, <<0, 120>>, <<0, 0>>, <<0, 1000>>,
           <<FALSE, 0, 0>>, 0, TRUE, 0)

Items ==
    { ItemMain, ItemPlainBranch, ItemFeature, ItemBig, ItemPrimaryDirty,
      ItemBehindBranch }

(* ------------------------- calculate_column_widths -------------------- *)

\* the running maxima before the first row
ZeroMaxima ==
    [max_branch |-> 0, max_time |-> 0, max_message |-> 0, max_states |-> 0,
     max_wt_added_digits |-> 0, max_wt_deleted_digits |-> 0,
     max_br_added_digits |-> 0, max_br_deleted_digits |-> 0,
     max_ahead_digits |-> 0, max_behind_digits |-> 0,
     max_upstream_ahead_digits |-> 0, max_upstream_behind_digits |-> 0,
     any_pr_status |-> FALSE, path_data_width |-> 0]

\* variant of the running maximum that keeps the latest value
RunningMax_latest(cur, v) == v

\* `x = x.max(v)`: a running maximum of the row scan
RunningMax(cur, v) == Max(cur, v)

\* variant of the ahead/behind condition without the primary-row test
HasAheadBehind_any_row(item) ==
    item.counts.ahead > 0 \/ item.counts.behind > 0

\* the row contributes to the ahead/behind column
HasAheadBehind(item) ==
    ~item.is_primary /\ (item.counts.ahead > 0 \/ item.counts.behind > 0)

\* the row contributes to the working-diff column
HasWorkingDiff(item) ==
    item.kind = "Worktree"
    /\ (item.working_tree_diff[1] > 0 \/ item.working_tree_diff[2] > 0)

\* the row contributes to the branch-diff column
HasBranchDiff(item) ==
    ~item.is_primary /\ (item.branch_diff[1] > 0 \/ item.branch_diff[2] > 0)

\* one iteration of `for item in items`
ScanRow(m, item) ==
    LET ab == HasAheadBehind(item)
        wt == HasWorkingDiff(item)
        br == HasBranchDiff(item)
        up == item.upstream.active
    IN  [max_branch |-> RunningMax(m.max_branch, item.branch_name_w),
         max_time |-> RunningMax(m.max_time, item.time_w),
         max_message |->
             RunningMax(m.max_message, Min(item.message_chars, MESSAGE_TAKE)),
         max_states |->
             IF item.states_w > 0 THEN RunningMax(m.max_states, item.states_w)
             ELSE m.max_states,
         max_wt_added_digits |->
             IF wt THEN RunningMax(m.max_wt_added_digits,
                            Digits(item.working_tree_diff[1]))
             ELSE m.max_wt_added_digits,
         max_wt_deleted_digits |->
             IF wt THEN RunningMax(m.max_wt_deleted_digits,
                            Digits(item.working_tree_diff[2]))
             ELSE m.max_wt_deleted_digits,
         max_br_added_digits |->
             IF br THEN RunningMax(m.max_br_added_digits, Digits(item.branch_diff[1]))
             ELSE m.max_br_added_digits,
         max_br_deleted_digits |->
             IF br THEN RunningMax(m.max_br_deleted_digits,
                            Digits(item.branch_diff[2]))
             ELSE m.max_br_deleted_digits,
         max_ahead_digits |->
             IF ab THEN RunningMax(m.max_ahead_digits, Digits(item.counts.ahead))
             ELSE m.max_ahead_digits,
         max_behind_digits |->
             IF ab THEN RunningMax(m.max_behind_digits, Digits(item.counts.behind))
             ELSE m.max_behind_digits,
         max_upstream_ahead_digits |->
             IF up THEN RunningMax(m.max_upstream_ahead_digits,
                            Digits(item.upstream.ahead))
             ELSE m.max_upstream_ahead_digits,
         max_upstream_behind_digits |->
             IF up THEN RunningMax(m.max_upstream_behind_digits,
                            Digits(item.upstream.behind))
             ELSE m.max_upstream_behind_digits,
         any_pr_status |-> m.any_pr_status \/ item.pr_status,
         path_data_width |->
             IF item.kind = "Worktree"
             THEN RunningMax(m.path_data_width, item.path_w)
             ELSE m.path_data_width]

\* variant of the diff data width that counts one sign only
DiffDataWidth_one_sign(a, d) == IF a > 0 \/ d > 0 THEN 1 + a + 1 + d ELSE 0

\* "+{added} -{deleted}" / "^n vn": sign, digits, blank, sign, digits
DiffDataWidth(a, d) == IF a > 0 \/ d > 0 THEN 1 + a + 1 + 1 + d ELSE 0

DiffWidthsOf(header, a, d) ==
    [total |-> fit_header(header, DiffDataWidth(a, d)),
     added_digits |-> a, deleted_digits |-> d]

\* the ColumnWidths value returned by calculate_column_widths
IdealWidths(m) ==
    [branch |-> fit_header(HEADER_BRANCH, m.max_branch),
     time |-> fit_header(HEADER_AGE, m.max_time),
     ci_status |-> fit_header(HEADER_CI, ci_status_width),
     message |-> fit_header(HEADER_MESSAGE, m.max_message),
     ahead_behind |->
         DiffWidthsOf(HEADER_AHEAD_BEHIND, m.max_ahead_digits,
                      m.max_behind_digits),
     working_diff |->
         DiffWidthsOf(HEADER_WORKING_DIFF, m.max_wt_added_digits,
                      m.max_wt_deleted_digits),
     branch_diff |->
         DiffWidthsOf(HEADER_BRANCH_DIFF, m.max_br_added_digits,
                      m.max_br_deleted_digits),
     upstream |->
         DiffWidthsOf(HEADER_UPSTREAM, m.max_upstream_ahead_digits,
                      m.max_upstream_behind_digits),
     states |-> fit_header(HEADER_STATE, m.max_states),
     commit |-> COMMIT_HASH_WIDTH,
     path |-> 0]

\* variant of the data flags that takes a nonzero ideal width for data
DataFlags_from_totals(m, ci_requested) ==
    [working_diff |-> fit_header(HEADER_WORKING_DIFF, 0) > 0,
     ahead_behind |-> fit_header(HEADER_AHEAD_BEHIND, 0) > 0,
     branch_diff |-> fit_header(HEADER_BRANCH_DIFF, 0) > 0,
     upstream |-> fit_header(HEADER_UPSTREAM, 0) > 0,
     states |-> fit_header(HEADER_STATE, m.max_states) > 0,
     ci_status |-> ci_requested /\ m.any_pr_status]

\* the ColumnDataFlags value returned by calculate_column_widths
DataFlags(m, ci_requested) ==
    [working_diff |-> m.max_wt_added_digits > 0 \/ m.max_wt_deleted_digits > 0,
     ahead_behind |-> m.max_ahead_digits > 0 \/ m.max_behind_digits > 0,
     branch_diff |-> m.max_br_added_digits > 0 \/ m.max_br_deleted_digits > 0,
     upstream |->
         m.max_upstream_ahead_digits > 0 \/ m.max_upstream_behind_digits > 0,
     states |-> m.max_states > 0,
     ci_status |-> ci_requested /\ m.any_pr_status]

(* ------------------------------- state -------------------------------- *)

VARIABLES
    show_full,        \* argument of calculate_responsive_layout
    fetch_ci,         \* argument of calculate_responsive_layout
    items,            \* the rows read so far, in order (argument `items`)
    maxima,           \* running maxima of the row scan
    scanned,          \* rows consumed by the scan loop so far
    ideal_widths,     \* result of calculate_column_widths
    data_flags,       \* result of calculate_column_widths
    max_path_width,   \* fit_header(HEADER_PATH, path_data_width)
    terminal_width,   \* get_terminal_width()
    remaining,        \* the budget
    widths,           \* the ColumnWidths being filled in
    positions,        \* the ColumnPositions
    pc,               \* statement group about to run
    step,             \* index of the column within the current pass
    \* status column (commands/list/model.rs, status_column_tests.rs)
    st_rows,          \* the StatusSymbols of the listing, in order
    st_builder,       \* the StatusSymbols handed to PositionMask::from_symbols
    st_mask,          \* the PositionMask
    st_out,           \* the rendered status cells, one per row rendered
    st_pc,            \* statement group of the status rendering
    \* output.rs
    out_call,         \* handler and arguments of the call in progress
    directives,       \* DirectiveOutput.directives
    stdout,           \* what was written to stdout, one entry per write
    executed,         \* commands run by execute_command_in_worktree
    out_ret,          \* value returned by the handler
    out_pc,           \* statement about to run in the handler
    \* commands/project_config.rs
    cfg_call,         \* function called and what the repository answers
    stderr,           \* lines written by eprintln!
    cfg_ret,          \* value returned
    cfg_pc            \* statement about to run

layout_vars ==
    << show_full, fetch_ci, items, maxima, scanned, ideal_widths, data_flags,
       max_path_width, terminal_width, remaining, widths, positions, pc,
       step >>

status_vars == << st_rows, st_builder, st_mask, st_out, st_pc >>

output_vars == << out_call, directives, stdout, executed, out_ret, out_pc >>

config_vars == << cfg_call, stderr, cfg_ret, cfg_pc >>

vars == << layout_vars, status_vars, output_vars, config_vars >>

\* no status cell is being rendered
StatusParked ==
    /\ st_rows = << >>
    /\ st_builder = << >>
    /\ st_mask = {}
    /\ st_out = << >>
    /\ st_pc = "idle"

\* no output handler is running
OutputParked ==
    /\ out_call = << >>
    /\ directives = << >>
    /\ stdout = << >>
    /\ executed = << >>
    /\ out_ret = << >>
    /\ out_pc = "idle"

\* no project configuration is being loaded
ConfigParked ==
    /\ cfg_call = << >>
    /\ stderr = << >>
    /\ cfg_ret = << >>
    /\ cfg_pc = "idle"

(* --------------------- calculate_responsive_layout -------------------- *)

commit_width == fit_header(HEADER_COMMIT, COMMIT_HASH_WIDTH)

\* variant of the pass 1 conditions that does not consult the data flags
Phase1Guard_no_flags(c) ==
    CASE c = "branch_diff" -> show_full
      [] OTHER -> TRUE

\* the condition guarding a column's statement in pass 1
Phase1Guard(c) ==
    CASE c \in {"branch", "path", "time", "commit"} -> TRUE
      [] c = "branch_diff" -> show_full /\ data_flags.branch_diff
      [] OTHER -> data_flags[c]

\* variant of the pass 2 conditions without the show_full / fetch_ci gates
Phase2Guard_ungated(c) == ~data_flags[c]

\* the condition guarding a column's statement in pass 2
Phase2Guard(c) ==
    CASE c = "branch_diff" -> show_full /\ ~data_flags.branch_diff
      [] c = "ci_status" -> fetch_ci /\ ~data_flags.ci_status
      [] OTHER -> ~data_flags[c]

\* the ideal width handed to try_allocate for a column
IdealOf(c) ==
    CASE c = "path" -> max_path_width
      [] c = "commit" -> commit_width
      [] c \in Composite -> ideal_widths[c].total
      [] OTHER -> ideal_widths[c]

\* what the statement stores after try_allocate returned `allocated`
StoreWidth(w, c, allocated) ==
    IF c \in Composite
    THEN IF allocated > 0 THEN [w EXCEPT ![c] = ideal_widths[c]] ELSE w
    ELSE [w EXCEPT ![c] = allocated]

\* one column statement of pass 1 on the pair (remaining, widths)
Phase1Column(s, c) ==
    IF Phase1Guard(c)
    THEN LET r == try_allocate(s.remaining, IdealOf(c), spacing, c = "branch")
         IN  [remaining |-> r.remaining,
              widths |-> StoreWidth(s.widths, c, r.width)]
    ELSE s

\* variant of the message width whose tests leave out the gap
message_width_no_gap(rem) ==
    IF rem >= PREFERRED_MESSAGE THEN PREFERRED_MESSAGE
    ELSE IF rem >= MIN_MESSAGE
      THEN Min(saturating_sub(rem, spacing), ideal_widths.message)
    ELSE 0

\* the width chosen for the message from the budget left by pass 1
message_width(rem) ==
    IF rem >= PREFERRED_MESSAGE + spacing THEN PREFERRED_MESSAGE
    ELSE IF rem >= MIN_MESSAGE + spacing
      THEN Min(saturating_sub(rem, spacing), ideal_widths.message)
    ELSE 0

PlaceMessage(s) ==
    LET mw == message_width(s.remaining)
    IN  IF mw > 0
        THEN [remaining |-> saturating_sub(s.remaining, mw + spacing),
              widths |-> [s.widths EXCEPT
                             !.message = Min(mw, ideal_widths.message)]]
        ELSE s

\* one column statement of pass 2
Phase2Column(s, c) ==
    IF Phase2Guard(c)
    THEN LET r == try_allocate(s.remaining, IdealOf(c), spacing, FALSE)
         IN  [remaining |-> r.remaining,
              widths |-> StoreWidth(s.widths, c, r.width)]
    ELSE s

ExpandMessage(s) ==
    IF s.widths.message > 0 /\ s.widths.message < MAX_MESSAGE
       /\ s.remaining > 0
    THEN [s EXCEPT !.widths.message =
              @ + Min(s.remaining, MAX_MESSAGE - s.widths.message)]
    ELSE s

\* variant of advance that puts the gap before the first column too
advance_gap_always(pos, width) ==
    IF width = 0
    THEN [pos |-> pos, column_pos |-> 0]
    ELSE [pos |-> pos + gap + width, column_pos |-> pos + gap]

\* variant of advance that moves the cursor by a gap over a hidden column
advance_gap_for_hidden(pos, width) ==
    IF width = 0
    THEN [pos |-> IF pos = 0 THEN 0 ELSE pos + gap, column_pos |-> 0]
    ELSE LET column_pos == IF pos = 0 THEN 0 ELSE pos + gap
         IN  [pos |-> column_pos + width, column_pos |-> column_pos]

\* variant of advance that leaves out the gap between columns
advance_no_gap(pos, width) ==
    IF width = 0
    THEN [pos |-> pos, column_pos |-> 0]
    ELSE [pos |-> pos + width, column_pos |-> pos]

\* the `advance` closure: pos is the captured cursor
advance(pos, width) ==
    IF width = 0
    THEN [pos |-> pos, column_pos |-> 0]
    ELSE LET column_pos == IF pos = 0 THEN 0 ELSE pos + gap
         IN  [pos |-> column_pos + width, column_pos |-> column_pos]

\* the ColumnPositions literal: advance applied field by field
RECURSIVE AdvanceFrom(_, _, _, _)
AdvanceFrom(w, i, pos, acc) ==
    IF i > Len(ColumnOrder) THEN acc
    ELSE LET c == ColumnOrder[i]
             a == advance(pos, WidthOf(w, c))
         IN  AdvanceFrom(w, i + 1, a.pos, [acc EXCEPT ![c] = a.column_pos])

ColumnPositionsOf(w) == AdvanceFrom(w, 1, 0, ZeroPositions)

(* ------------------------------ actions ------------------------------- *)

Init ==
    /\ show_full \in BOOLEAN
    /\ fetch_ci \in BOOLEAN
    /\ items = << >>
    /\ maxima = ZeroMaxima
    /\ scanned = 0
    /\ ideal_widths = IdealWidths(ZeroMaxima)
    /\ data_flags = NoFlags
    /\ max_path_width = 0
    /\ terminal_width = 0
    /\ remaining = 0
    /\ widths = ZeroWidths
    /\ positions = ZeroPositions
    /\ pc = "scan"
    /\ step = 0
    /\ StatusParked
    /\ OutputParked
    /\ ConfigParked

\* body of `for item in items` (the path maximum of the later
\* filter_map/max over the same rows is folded into the same pass)
ScanItem ==
    /\ pc = "scan"
    /\ scanned < MaxRows
    /\ \E item \in Items :
           /\ items' = Append(items, item)
           /\ maxima' = ScanRow(maxima, item)
    /\ scanned' = scanned + 1
    /\ UNCHANGED << show_full, fetch_ci, ideal_widths, data_flags,
                    max_path_width, terminal_width, remaining, widths,
                    positions, pc, step >>
    /\ UNCHANGED << status_vars, output_vars, config_vars >>

\* end of the loop: the widths, the flags and the path width are fixed
FinishScan ==
    /\ pc = "scan"
    /\ ideal_widths' = IdealWidths(maxima)
    /\ data_flags' = DataFlags(maxima, fetch_ci)
    /\ max_path_width' = fit_header(HEADER_PATH, maxima.path_data_width)
    /\ scanned' = 0
    /\ pc' = "begin"
    /\ UNCHANGED << show_full, fetch_ci, items, maxima, terminal_width,
                    remaining, widths, positions, step >>
    /\ UNCHANGED << status_vars, output_vars, config_vars >>

\* `let mut remaining = terminal_width; let mut widths = ...`
\* (the terminal probe does not depend on the rows; its value is drawn here;
\* the rows are not read again from here on and are dropped from the state)
BeginAllocation ==
    /\ pc = "begin"
    /\ items' = << >>
    /\ \E w \in 0..MaxWidth :
           /\ terminal_width' = w
           /\ remaining' = w
    /\ widths' = ZeroWidths
    /\ pc' = "phase1"
    /\ step' = 1
    /\ UNCHANGED << show_full, fetch_ci, maxima, scanned, ideal_widths,
                    data_flags, max_path_width, positions >>
    /\ UNCHANGED << status_vars, output_vars, config_vars >>

AllocatePhase1 ==
    /\ pc = "phase1"
    /\ LET s == Phase1Column([remaining |-> remaining, widths |-> widths],
                             Phase1Order[step])
       IN  /\ remaining' = s.remaining
           /\ widths' = s.widths
    /\ IF step < Len(Phase1Order)
       THEN pc' = pc /\ step' = step + 1
       ELSE pc' = "message" /\ step' = 0
    /\ UNCHANGED << show_full, fetch_ci, items, maxima, scanned, ideal_widths,
                    data_flags, max_path_width, terminal_width, positions >>
    /\ UNCHANGED << status_vars, output_vars, config_vars >>

AllocateMessage ==
    /\ pc = "message"
    /\ LET s == PlaceMessage([remaining |-> remaining, widths |-> widths])
       IN  /\ remaining' = s.remaining
           /\ widths' = s.widths
    /\ pc' = "phase2"
    /\ step' = 1
    /\ UNCHANGED << show_full, fetch_ci, items, maxima, scanned, ideal_widths,
                    data_flags, max_path_width, terminal_width, positions >>
    /\ UNCHANGED << status_vars, output_vars, config_vars >>

AllocatePhase2 ==
    /\ pc = "phase2"
    /\ LET s == Phase2Column([remaining |-> remaining, widths |-> widths],
                             Phase2Order[step])
       IN  /\ remaining' = s.remaining
           /\ widths' = s.widths
    /\ IF step < Len(Phase2Order)
       THEN pc' = pc /\ step' = step + 1
       ELSE pc' = "expand" /\ step' = 0
    /\ UNCHANGED << show_full, fetch_ci, items, maxima, scanned, ideal_widths,
                    data_flags, max_path_width, terminal_width, positions >>
    /\ UNCHANGED << status_vars, output_vars, config_vars >>

ExpandMessageStep ==
    /\ pc = "expand"
    /\ LET s == ExpandMessage([remaining |-> remaining, widths |-> widths])
       IN  /\ remaining' = s.remaining
           /\ widths' = s.widths
    /\ pc' = "positions"
    /\ UNCHANGED << show_full, fetch_ci, items, maxima, scanned, ideal_widths,
                    data_flags, max_path_width, terminal_width, positions,
                    step >>
    /\ UNCHANGED << status_vars, output_vars, config_vars >>

ComputePositions ==
    /\ pc = "positions"
    /\ positions' = ColumnPositionsOf(widths)
    /\ pc' = "done"
    /\ UNCHANGED << show_full, fetch_ci, items, maxima, scanned, ideal_widths,
                    data_flags, max_path_width, terminal_width, remaining,
                    widths, step >>
    /\ UNCHANGED << status_vars, output_vars, config_vars >>

Next ==
    \/ ScanItem
    \/ FinishScan
    \/ BeginAllocation
    \/ AllocatePhase1
    \/ AllocateMessage
    \/ AllocatePhase2
    \/ ExpandMessageStep
    \/ ComputePositions

Spec == Init /\ [][Next]_vars

(* ------------------- the allocation as one function ------------------- *)

RECURSIVE RunPhase1(_, _)
RunPhase1(s, i) ==
    IF i > Len(Phase1Order) THEN s
    ELSE RunPhase1(Phase1Column(s, Phase1Order[i]), i + 1)

RECURSIVE RunPhase2(_, _)
RunPhase2(s, i) ==
    IF i > Len(Phase2Order) THEN s
    ELSE RunPhase2(Phase2Column(s, Phase2Order[i]), i + 1)

\* budget and widths right after the message was placed, for terminal width w
AfterMessage(w) ==
    PlaceMessage(RunPhase1([remaining |-> w, widths |-> ZeroWidths], 1))

\* final budget and widths for the current rows and flags at terminal width w
LayoutAt(w) == ExpandMessage(RunPhase2(AfterMessage(w), 1))

(* ----------------------------- properties ----------------------------- *)

Visible(w, c) == WidthOf(w, c) > 0

VisibleColumns(w) == { c \in Columns : Visible(w, c) }

RECURSIVE SumWidths(_, _)
SumWidths(w, i) ==
    IF i > Len(ColumnOrder) THEN 0
    ELSE WidthOf(w, ColumnOrder[i]) + SumWidths(w, i + 1)

\* visible widths plus one gap between consecutive visible columns
UsedWidth(w) ==
    LET n == Cardinality(VisibleColumns(w))
    IN  SumWidths(w, 1) + (IF n > 0 THEN gap * (n - 1) ELSE 0)

\* index in ColumnOrder of the last visible column before index i, 0 if none
RECURSIVE PrevVisible(_, _)
PrevVisible(w, i) ==
    IF i <= 1 THEN 0
    ELSE IF Visible(w, ColumnOrder[i - 1]) THEN i - 1
    ELSE PrevVisible(w, i - 1)

Done == pc = "done"

OptionalColumns ==
    { "working_diff", "ahead_behind", "branch_diff", "states", "upstream",
      "ci_status" }

\* the stepwise run and the composed function agree
StepwiseAgrees ==
    Done => /\ LayoutAt(terminal_width).widths = widths
            /\ LayoutAt(terminal_width).remaining = remaining

\* C1: in every returned layout the visible widths plus a gap of 2 between
\* consecutive visible columns fit the terminal width, and so does the end
\* (position + width) of every visible column, message expansion included.
C1_FitsTerminal ==
    Done =>
        /\ UsedWidth(widths) <= terminal_width
        /\ \A c \in Columns :
               Visible(widths, c) =>
                   positions[c] + WidthOf(widths, c) <= terminal_width

\* C1 witness: a layout whose message was expanded and that fills the
\* terminal exactly with several columns.
C1_Witness ==
    /\ Done
    /\ data_flags.working_diff /\ Visible(widths, "working_diff")
    /\ widths.branch > HEADER_BRANCH
    /\ widths.message > ideal_widths.message
    /\ Cardinality(VisibleColumns(widths)) >= 4
    /\ UsedWidth(widths) = terminal_width

\* C2 (as claimed): a column visible at terminal width W is visible at every
\* larger terminal width, for the same rows and flags.
C2_Monotone ==
    Done =>
        \A c \in Columns :
            Visible(widths, c) =>
                \A w \in (terminal_width + 1)..MaxWidth :
                    Visible(LayoutAt(w).widths, c)

\* C2 (amended): the branch column, once visible at terminal width W, is
\* visible at every larger terminal width.
C2_BranchMonotone ==
    Done /\ Visible(widths, "branch") =>
        \A w \in (terminal_width + 1)..MaxWidth :
            Visible(LayoutAt(w).widths, "branch")

\* C2 witness: the branch column is visible, and one more character of
\* terminal width hides another column that is visible now.
C2_Witness ==
    /\ Done
    /\ Visible(widths, "branch")
    /\ widths.branch > HEADER_BRANCH
    /\ terminal_width < MaxWidth
    /\ \E c \in Columns :
           /\ Visible(widths, c)
           /\ ~Visible(LayoutAt(terminal_width + 1).widths, c)

\* C3: every visible column, the shrunk message included, is at least as
\* wide as its header.
C3_HeaderFits ==
    \A c \in Columns :
        Visible(widths, c) => WidthOf(widths, c) >= HeaderOf(c)

\* C3 witness: a returned layout whose message column was shrunk below the
\* preferred width while data columns are shown.
C3_Witness ==
    /\ Done
    /\ Visible(widths, "message")
    /\ widths.message < PREFERRED_MESSAGE
    /\ data_flags.working_diff /\ Visible(widths, "working_diff")
    /\ maxima.path_data_width > 0 /\ Visible(widths, "path")

\* C4 (as claimed): a column other than branch has position 0 exactly when
\* its width is 0.
C4_ZeroMeansHidden ==
    Done =>
        \A c \in Columns \ {"branch"} :
            (positions[c] = 0) <=> (WidthOf(widths, c) = 0)

\* C5: a visible branch column starts at position 0.
C5_BranchAtZero ==
    Done /\ Visible(widths, "branch") => positions.branch = 0

\* C5 witness: a layout showing the branch column together with others.
C5_Witness ==
    /\ Done
    /\ Visible(widths, "branch")
    /\ widths.branch > HEADER_BRANCH
    /\ Visible(widths, "path")
    /\ positions.path > 0

\* C6: walking the display order, the first visible column starts at 0 and
\* every later visible column starts at the end of the previous visible
\* column plus 2; hidden columns in between add nothing.
C6_GapRule ==
    Done =>
        \A i \in 1..Len(ColumnOrder) :
            Visible(widths, ColumnOrder[i]) =>
                LET p == PrevVisible(widths, i)
                IN  positions[ColumnOrder[i]] =
                        IF p = 0 THEN 0
                        ELSE positions[ColumnOrder[p]]
                             + WidthOf(widths, ColumnOrder[p]) + gap

\* C6 witness: branch, then three hidden columns in a row, then a states
\* column placed by pass 2, then path from pass 1, and the message.
C6_Witness ==
    /\ Done
    /\ maxima.max_branch > 0
    /\ Visible(widths, "branch")
    /\ \A c \in {"working_diff", "ahead_behind", "branch_diff"} :
           ~Visible(widths, c)
    /\ ~data_flags.states /\ Visible(widths, "states")
    /\ Visible(widths, "path")
    /\ Visible(widths, "message")

\* C7: a column without data is hidden throughout pass 1 and message
\* placement; if it is visible in the returned layout, the budget left by
\* message placement was at least its ideal width + 2.
C7_EmptyOnlyInPass2 ==
    \A c \in OptionalColumns :
        ~data_flags[c] =>
            /\ pc \in {"phase1", "message"} => ~Visible(widths, c)
            /\ Done /\ Visible(widths, c) =>
                   /\ AfterMessage(terminal_width).remaining > 0
                   /\ AfterMessage(terminal_width).remaining
                          >= IdealOf(c) + spacing

\* C7 witness: a returned layout showing a column that has no data while
\* another optional column has data.
C7_Witness ==
    /\ Done
    /\ ~data_flags.states /\ Visible(widths, "states")
    /\ data_flags.working_diff /\ Visible(widths, "working_diff")

\* the rows of the end-to-end example: only "main" (4 characters) with a
\* path and no optional field
ExampleRows ==
    /\ maxima.max_branch = 4
    /\ maxima.path_data_width > 0
    /\ \A c \in OptionalColumns : ~data_flags[c]

\* C8 (as claimed): at width 80 the example places branch at position 0 with
\* width 4 and path at position 6.
C8_Example ==
    Done /\ terminal_width = 80 /\ ExampleRows =>
        /\ positions.branch = 0
        /\ widths.branch = 4
        /\ positions.path = 6

\* C8 (amended): at width 80 the example places branch at position 0 with
\* the header width 6, and a visible path column at position 8 (6 + 2) when
\* no empty column was placed before it by pass 2.
C8_ExampleHeaderWidth ==
    Done /\ terminal_width = 80 /\ ExampleRows =>
        /\ positions.branch = 0
        /\ widths.branch = HEADER_BRANCH
        /\ (/\ Visible(widths, "path")
            /\ \A c \in {"working_diff", "ahead_behind", "branch_diff",
                         "states"} : ~Visible(widths, c))
               => positions.path = HEADER_BRANCH + gap

\* C8 witness: the example at width 80 with path directly after branch.
C8_Witness ==
    /\ Done
    /\ terminal_width = 80
    /\ ExampleRows
    /\ widths.branch = 6
    /\ positions.path = 8

\* C9 (as claimed): when the branch column is hidden no column is visible.
C9_NothingWithoutBranch ==
    Done /\ ~Visible(widths, "branch") => VisibleColumns(widths) = {}

\* C10 (as claimed): when working diff (resp. ahead/behind) has data and a
\* lower-priority fixed-format column is visible, it is visible too.
C10_CriticalFirst ==
    Done =>
        \A crit \in {"working_diff", "ahead_behind"} :
            (/\ data_flags[crit]
             /\ \E low \in {"states", "path", "upstream", "time",
                            "ci_status", "commit"} : Visible(widths, low))
                => Visible(widths, crit)

\* the record a column holds when it is shown at full width
IdealRecord(c) ==
    CASE c = "path" -> max_path_width
      [] c = "commit" -> commit_width
      [] OTHER -> ideal_widths[c]

\* C11: every column other than the message is either hidden (width 0, for
\* a two-part column the all-zero record) or holds exactly its ideal width
\* (for a two-part column the whole ideal record); never a reduced width.
C11_AllOrNothing ==
    pc \notin {"scan", "begin"} =>
        \A c \in Columns \ {"message"} :
            \/ widths[c] = ZeroWidths[c]
            \/ widths[c] = IdealRecord(c)

\* C11 witness: a returned layout in which a two-part column with data is
\* shown in full while another column with data did not fit and is hidden.
C11_Witness ==
    /\ Done
    /\ data_flags.working_diff
    /\ widths.working_diff = ideal_widths.working_diff
    /\ widths.working_diff.added_digits > 0
    /\ data_flags.states /\ ~Visible(widths, "states")
    /\ Visible(widths, "branch")
    /\ remaining > 0

\* C12 (as claimed): the final message width is 0 or lies between the floor
\* 20 and the cap 100.
C12_MessageBounds ==
    Done => \/ widths.message = 0
            \/ (MIN_MESSAGE <= widths.message
                /\ widths.message <= MAX_MESSAGE)

\* C13 (as claimed): a visible message either reached the cap of 100 or the
\* layout uses the whole terminal width.
C13_LeftoverToMessage ==
    Done /\ Visible(widths, "message") =>
        \/ widths.message = MAX_MESSAGE
        \/ UsedWidth(widths) = terminal_width

\* C14 (as claimed): the CI data flag returned by calculate_column_widths
\* equals fetch_ci whatever the rows carry, and the CI ideal width is 2.
C14_CiFlagIsRequested ==
    pc # "scan" =>
        /\ data_flags.ci_status = fetch_ci
        /\ ideal_widths.ci_status = 2

\* C15: with show_full = FALSE the branch-diff column is hidden (width 0,
\* position 0), and with fetch_ci = FALSE the CI column is hidden, in every
\* state of the computation and for all rows and terminal widths.
C15_GatedColumns ==
    /\ ~show_full =>
           /\ widths.branch_diff = DiffWidthsZero
           /\ positions.branch_diff = 0
    /\ ~fetch_ci =>
           /\ widths.ci_status = 0
           /\ positions.ci_status = 0

\* C15 witness: a wide layout with both gates closed although the rows carry
\* a branch diff and a PR status, while other empty columns are shown.
C15_Witness ==
    /\ Done
    /\ ~show_full /\ data_flags.branch_diff
    /\ ~fetch_ci /\ maxima.any_pr_status
    /\ Visible(widths, "message")
    /\ ~data_flags.states /\ Visible(widths, "states")
    /\ remaining >= HEADER_BRANCH_DIFF + spacing

\* the scan saw no row at all (every row has a non-empty branch name)
EmptyRowSet == pc # "scan" /\ maxima = ZeroMaxima

\* C16 (as claimed): for an empty row set every optional column is hidden in
\* the returned layout, at any terminal width.
C16_EmptyAllHidden ==
    Done /\ EmptyRowSet =>
        \A c \in OptionalColumns : ~Visible(widths, c)

\* C16 (amended): for an empty row set the computation always has a next
\* statement to run until it returns, every data flag is false, no optional column is shown before pass 2, and
\* an optional column of the returned layout is hidden or a header-only
\* column (header width, no digits) placed by pass 2.
C16_EmptyHeaderOnly ==
    EmptyRowSet =>
        /\ pc \in {"begin", "phase1", "message", "phase2", "expand",
                   "positions", "done"}
        /\ pc = "phase1" => step \in 1..Len(Phase1Order)
        /\ pc = "phase2" => step \in 1..Len(Phase2Order)
        /\ \A c \in OptionalColumns :
               /\ ~data_flags[c]
               /\ pc \in {"begin", "phase1", "message"} => ~Visible(widths, c)
               /\ Visible(widths, c) =>
                      /\ WidthOf(widths, c) = HeaderOf(c)
                      /\ c \in Composite =>
                             /\ widths[c].added_digits = 0
                             /\ widths[c].deleted_digits = 0
                      /\ c = "branch_diff" => show_full
                      /\ c = "ci_status" => fetch_ci

\* C16 witness: the layout of an empty row set on a wide terminal, showing
\* header-only optional columns.
C16_Witness ==
    /\ Done
    /\ EmptyRowSet
    /\ Visible(widths, "working_diff")
    /\ Visible(widths, "upstream")
    /\ Visible(widths, "message")

\* the budget charge of the column statement about to run in pass 1 or 2
ChargeOf(c) == IF c = "branch" THEN IdealOf(c) ELSE IdealOf(c) + spacing

\* C17: the budget is never negative and no subtraction underflows: a column
\* statement that allocates finds its charge within the budget and leaves
\* exactly budget - charge; message placement charges at most the budget
\* (and has at least the gap to take off when it shrinks); the expansion
\* computes MAX_MESSAGE - width only for a width below the cap.
C17_NoUnderflow ==
    LET cur == [remaining |-> remaining, widths |-> widths]
    IN  /\ remaining >= 0
        /\ pc = "phase1" =>
               LET c == Phase1Order[step]
                   s == Phase1Column(cur, c)
               IN  IF s.widths # widths
                   THEN /\ ChargeOf(c) <= remaining
                        /\ s.remaining = remaining - ChargeOf(c)
                   ELSE s.remaining = remaining
        /\ pc = "phase2" =>
               LET c == Phase2Order[step]
                   s == Phase2Column(cur, c)
               IN  IF s.widths # widths
                   THEN /\ ChargeOf(c) <= remaining
                        /\ s.remaining = remaining - ChargeOf(c)
                   ELSE s.remaining = remaining
        /\ pc = "message" =>
               LET mw == message_width(remaining)
                   s == PlaceMessage(cur)
               IN  /\ mw > 0 =>
                          /\ spacing <= remaining
                          /\ mw + spacing <= remaining
                          /\ s.remaining = remaining - (mw + spacing)
                   /\ mw = 0 => s = cur
        /\ pc = "expand" =>
               LET s == ExpandMessage(cur)
               IN  /\ widths.message <= MAX_MESSAGE
                   /\ s.widths.message >= widths.message
                   /\ s.widths.message - widths.message <= remaining

\* C17 witness: message placement about to shrink the message and charge
\* the whole budget left by pass 1.
C17_Witness ==
    /\ pc = "message"
    /\ message_width(remaining) > 0
    /\ message_width(remaining) < PREFERRED_MESSAGE
    /\ message_width(remaining) + spacing = remaining
    /\ data_flags.working_diff /\ Visible(widths, "working_diff")
    /\ Visible(widths, "branch")

(* ------------- calculate_column_widths as one function ---------------- *)

RECURSIVE ScanFrom(_, _, _)
ScanFrom(m, rows, i) ==
    IF i > Len(rows) THEN m
    ELSE ScanFrom(ScanRow(m, rows[i]), rows, i + 1)

\* the pair returned by calculate_column_widths(rows, fetch_ci)
ColumnWidthsOf(rows) ==
    LET m == ScanFrom(ZeroMaxima, rows, 1)
    IN  [widths |-> IdealWidths(m), flags |-> DataFlags(m, fetch_ci)]

\* the state right after calculate_column_widths returned
Returned == pc = "begin"

\* largest element of a finite set of naturals, 0 for the empty set
MaxOf(S) == IF S = {} THEN 0 ELSE CHOOSE x \in S : \A y \in S : y <= x

\* the two numbers a row shows in a two-part column
PartsOf(c, it) ==
    CASE c = "working_diff" -> it.working_tree_diff
      [] c = "ahead_behind" -> << it.counts.ahead, it.counts.behind >>
      [] c = "branch_diff" -> it.branch_diff
      [] c = "upstream" -> << it.upstream.ahead, it.upstream.behind >>

NonZeroPair(p) == p[1] > 0 \/ p[2] > 0

\* the rows that the claims name as contributing to a two-part column
Contributes(c, it) ==
    CASE c = "working_diff" ->
             it.kind = "Worktree" /\ NonZeroPair(it.working_tree_diff)
      [] c = "ahead_behind" ->
             ~it.is_primary /\ NonZeroPair(PartsOf(c, it))
      [] c = "branch_diff" ->
             ~it.is_primary /\ NonZeroPair(it.branch_diff)
      [] c = "upstream" -> it.upstream.active

ContributingRows(c) == { i \in 1..Len(items) : Contributes(c, items[i]) }

\* C18: for each two-part column the returned digit counts are the maxima,
\* taken separately for the first and the second part, over the contributing
\* rows; the total is max(header, 3 + both maxima) when the column has data
\* and the header width otherwise; every contributing row's "+a -d" fits.
C18_CompositeSizing ==
    Returned =>
        \A c \in Composite :
            LET rows == ContributingRows(c)
                a == MaxOf({ Digits(PartsOf(c, items[i])[1]) : i \in rows })
                d == MaxOf({ Digits(PartsOf(c, items[i])[2]) : i \in rows })
            IN  /\ ideal_widths[c].added_digits = a
                /\ ideal_widths[c].deleted_digits = d
                /\ ideal_widths[c].total =
                       IF data_flags[c] THEN Max(HeaderOf(c), 3 + a + d)
                       ELSE HeaderOf(c)
                /\ \A i \in rows :
                       3 + Digits(PartsOf(c, items[i])[1])
                         + Digits(PartsOf(c, items[i])[2])
                           <= ideal_widths[c].total

\* C18 witness: two rows contribute to the branch diff, one with the widest
\* first part and the other with the widest second part, and the total
\* exceeds the header.
C18_Witness ==
    /\ Returned
    /\ Len(items) = 2
    /\ Cardinality(ContributingRows("branch_diff")) = 2
    /\ Digits(items[1].branch_diff[1]) > Digits(items[2].branch_diff[1])
    /\ Digits(items[1].branch_diff[2]) < Digits(items[2].branch_diff[2])
    /\ ideal_widths.branch_diff.total > HEADER_BRANCH_DIFF

\* the sequence without its i-th element
RemoveAt(seq, i) ==
    [j \in 1..(Len(seq) - 1) |-> IF j < i THEN seq[j] ELSE seq[j + 1]]

\* C19: the ahead/behind flag (resp. branch-diff flag) is true exactly when
\* some non-primary row has a nonzero pair, the working-diff flag exactly
\* when some worktree row has a nonzero working-tree diff; a primary row or
\* a row with a (0,0) pair adds nothing: without it the column's flag and
\* DiffWidths are the same.
C19_HasDataFlags ==
    Returned =>
        /\ data_flags.ahead_behind <=>
               \E i \in 1..Len(items) :
                   /\ ~items[i].is_primary
                   /\ (items[i].counts.ahead > 0 \/ items[i].counts.behind > 0)
        /\ data_flags.branch_diff <=>
               \E i \in 1..Len(items) :
                   /\ ~items[i].is_primary
                   /\ (items[i].branch_diff[1] > 0
                       \/ items[i].branch_diff[2] > 0)
        /\ data_flags.working_diff <=>
               \E i \in 1..Len(items) :
                   /\ items[i].kind = "Worktree"
                   /\ (items[i].working_tree_diff[1] > 0
                       \/ items[i].working_tree_diff[2] > 0)
        /\ \A c \in {"ahead_behind", "branch_diff", "working_diff"} :
               \A i \in 1..Len(items) :
                   ~Contributes(c, items[i]) =>
                       LET r == ColumnWidthsOf(RemoveAt(items, i))
                       IN  /\ r.widths[c] = ideal_widths[c]
                           /\ r.flags[c] = data_flags[c]

\* C19 witness: a primary row with nonzero ahead/behind counts next to a
\* non-primary row that sets the flag.
C19_Witness ==
    /\ Returned
    /\ data_flags.ahead_behind
    /\ \E i \in 1..Len(items) :
           /\ items[i].is_primary
           /\ items[i].counts.ahead > 0

\* the orders in which n rows can be listed
Orders(n) ==
    { f \in [1..n -> 1..n] : \A i, j \in 1..n : f[i] = f[j] => i = j }

\* C20: calculate_column_widths returns the same widths and flags for every
\* order of the same rows, and listing one of the rows twice changes nothing.
C20_OrderIndependent ==
    Returned =>
        /\ \A f \in Orders(Len(items)) :
               LET r == ColumnWidthsOf([i \in 1..Len(items) |-> items[f[i]]])
               IN  r.widths = ideal_widths /\ r.flags = data_flags
        /\ \A i \in 1..Len(items) :
               LET r == ColumnWidthsOf(Append(items, items[i]))
               IN  r.widths = ideal_widths /\ r.flags = data_flags

\* C20 witness: two different rows, the second narrower than the first in
\* the branch and time columns and wider in the message.
C20_Witness ==
    /\ Returned
    /\ Len(items) = 2
    /\ items[1].branch_name_w > items[2].branch_name_w
    /\ items[1].message_chars < items[2].message_chars
    /\ items[1].time_w > items[2].time_w

(* ---------------------- message and empty columns --------------------- *)

\* optional columns shown without data
EmptyShown(w) == { c \in OptionalColumns : ~data_flags[c] /\ Visible(w, c) }

\* C27: the message is placed after pass 1 and before pass 2: no column
\* without data is visible until the message statement has run, pass 2
\* starts from the pass 1 remainder minus the message's charge, and in the
\* final layout no column without data is visible while the message is
\* hidden.
C27_MessageOutranksEmpty ==
    /\ pc \in {"phase1", "message"} => EmptyShown(widths) = {}
    /\ (pc = "phase2" /\ step = 1) =>
           LET p1 == RunPhase1([remaining |-> terminal_width,
                                widths |-> ZeroWidths], 1)
               mw == message_width(p1.remaining)
           IN  remaining = p1.remaining
                             - (IF mw > 0 THEN mw + spacing ELSE 0)
    /\ Done => (~Visible(widths, "message") => EmptyShown(widths) = {})

(* --------------------------- wide terminals --------------------------- *)

\* every column but the message, less those switched off by the arguments
Eligible ==
    { c \in Columns \ {"message"} :
          /\ c = "branch_diff" => show_full
          /\ c = "ci_status" => fetch_ci }

RECURSIVE ChargeSum(_)
ChargeSum(i) ==
    IF i > Len(Phase1Order) THEN 0
    ELSE (IF Phase1Order[i] \in Eligible THEN ChargeOf(Phase1Order[i]) ELSE 0)
         + ChargeSum(i + 1)

\* branch ideal + (ideal + 2) for every other eligible column + 52
WideThreshold == ChargeSum(1) + PREFERRED_MESSAGE + spacing

\* C28: at a terminal width of at least the branch ideal width plus
\* (ideal + 2) for every other eligible column plus 52, every eligible
\* column is visible, with or without data, and so is the message; the
\* visible columns are exactly the eligible ones and the message, laid out
\* left to right in display order.
C28_WideShowsAll ==
    (Done /\ terminal_width >= WideThreshold) =>
        /\ \A c \in Eligible : Visible(widths, c)
        /\ Visible(widths, "message")
        /\ VisibleColumns(widths) = Eligible \cup {"message"}
        /\ \A i, j \in 1..Len(ColumnOrder) :
               (i < j /\ Visible(widths, ColumnOrder[i])
                      /\ Visible(widths, ColumnOrder[j])) =>
                   positions[ColumnOrder[i]] < positions[ColumnOrder[j]]

\* C28 witness: a finished layout at exactly the threshold width with both
\* arguments set, one column with data and one without.
C28_Witness ==
    /\ Done
    /\ terminal_width = WideThreshold
    /\ show_full /\ fetch_ci
    /\ data_flags.working_diff /\ ~data_flags.states
    /\ Visible(widths, "states") /\ Visible(widths, "message")

(* ------------------------ failure is permanent ------------------------ *)

\* the statement of column c in pass 1 has run
Tried1(c) ==
    \/ pc \in {"message", "phase2", "expand", "positions", "done"}
    \/ pc = "phase1" /\ \E i \in 1..(step - 1) : Phase1Order[i] = c

\* the effect of a column statement whose guard holds, from budget rem
AllocationEffect(c, rem, charge) ==
    IF IdealOf(c) = 0 \/ rem < charge
    THEN /\ ~Visible(widths', c)
         /\ remaining' = rem
    ELSE /\ WidthOf(widths', c) = IdealOf(c)
         /\ remaining' = rem - charge

\* C29: a column statement either fails (ideal width 0, or budget below
\* ideal + gap, the branch needing no gap), leaving the column at width 0
\* and the budget unchanged, or succeeds and lowers the budget by exactly
\* ideal + gap (ideal alone for the branch); a column that pass 1 tried and
\* left hidden (a column with data, or path, time, commit) is hidden in
\* every later state, and the budget never again reaches its charge.
C29_FailurePermanent ==
    [][ /\ pc = "phase1" =>
               LET c == Phase1Order[step]
               IN  IF Phase1Guard(c)
                   THEN AllocationEffect(c, remaining, ChargeOf(c))
                   ELSE remaining' = remaining /\ widths' = widths
        /\ pc = "phase2" =>
               LET c == Phase2Order[step]
               IN  IF Phase2Guard(c)
                   THEN AllocationEffect(c, remaining, IdealOf(c) + spacing)
                   ELSE remaining' = remaining /\ widths' = widths
        /\ \A c \in Columns \ {"message"} :
               (Phase1Guard(c) /\ Tried1(c) /\ ~Visible(widths, c)) =>
                   /\ ~Visible(widths', c)
                   /\ remaining' < ChargeOf(c)
      ]_vars

\* C29 witness: pass 1 left the states column, which has data, hidden and
\* went on to place a later column of pass 1.
C29_Witness ==
    /\ Done
    /\ data_flags.states /\ ~Visible(widths, "states")
    /\ Visible(widths, "branch")
    /\ \E c \in {"path", "time", "ci_status", "commit"} : Visible(widths, c)

(***************************************************************************)
(* Status column: PositionMask and StatusSymbols::render_with_mask         *)
(* (commands/list/model.rs, exercised by status_column_tests.rs).          *)
(* A rendered cell is a sequence of one-character strings.  The glyphs of  *)
(* the tests are written in ASCII: "=" for MatchesMain, "R" for Rebase,    *)
(* "v" for Behind; "!", "?", "+" are the working tree symbols.             *)
(***************************************************************************)

\* number of rows of a listing
MaxStatusRows == 2

\* the positions used by the tests, in canonical order: 0b, 0c, 1, 3
SlotOrder ==
    << "branch_state", "git_operation", "main_divergence", "working_tree" >>

Slots == { SlotOrder[i] : i \in 1..Len(SlotOrder) }

\* StatusSymbols { branch_state, git_operation, main_divergence,
\* working_tree }; "None" is the Default variant of each enum
Symbols(bs, op, md, wt) ==
    [branch_state |-> bs, git_operation |-> op, main_divergence |-> md,
     working_tree |-> wt]

\* StatusSymbols::default()
DefaultSymbols == Symbols("None", "None", "None", << >>)

\* the StatusSymbols values built by the tests
TestSymbols ==
    { DefaultSymbols,
      Symbols("MatchesMain", "None", "None", << >>),
      Symbols("None", "None", "None", << "!" >>),
      Symbols("None", "None", "None", << "?" >>),
      Symbols("MatchesMain", "None", "None", << "!" >>),
      Symbols("MatchesMain", "None", "None", << "?" >>),
      Symbols("None", "None", "Behind", << >>),
      Symbols("MatchesMain", "Rebase", "None", << >>),
      Symbols("MatchesMain", "None", "None", << "!", "+" >>),
      Symbols("None", "None", "Behind", << "!", "+" >>),
      Symbols("MatchesMain", "None", "Behind", << "!" >>),
      Symbols("MatchesMain", "None", "Behind", << "!", "+" >>) }

\* user status strings of a row; the empty one is None
UserStatuses == { << >>, << "U" >> }

\* the character an enum value is displayed as, "" for the absent variant
Glyph(v) ==
    CASE v = "MatchesMain" -> "="
      [] v = "Rebase" -> "R"
      [] v = "Behind" -> "v"
      [] OTHER -> ""

\* the characters a row holds at a position
SlotText(sym, slot) ==
    IF slot = "working_tree" THEN sym.working_tree
    ELSE IF Glyph(sym[slot]) = "" THEN << >>
    ELSE << Glyph(sym[slot]) >>

\* variant of from_symbols that reserves every position
from_symbols_all(sym) == Slots

\* PositionMask::from_symbols
from_symbols(sym) == { slot \in Slots : SlotText(sym, slot) # << >> }

\* the mask of a listing: the positions used by at least one row
ListingMask(rows) ==
    UNION { from_symbols(rows[i].symbols) : i \in 1..Len(rows) }

\* variant of the field of a position that leaves an absent symbol out
RenderSlot_skip_absent(sym, mask, slot) ==
    IF slot \notin mask THEN << >> ELSE SlotText(sym, slot)

\* variant of the field of a position that pads an absent symbol to the
\* width of a two-symbol run
RenderSlot_wide_blank(sym, mask, slot) ==
    IF slot \notin mask THEN << >>
    ELSE IF SlotText(sym, slot) # << >> THEN SlotText(sym, slot)
    ELSE IF slot = "working_tree" THEN << " ", " " >>
    ELSE << " " >>

\* the field of one position in render_with_mask
RenderSlot(sym, mask, slot) ==
    IF slot \notin mask THEN << >>
    ELSE IF SlotText(sym, slot) # << >> THEN SlotText(sym, slot)
    ELSE << " " >>

\* StatusSymbols::render_with_mask
RECURSIVE RenderFrom(_, _, _)
RenderFrom(sym, mask, i) ==
    IF i > Len(SlotOrder) THEN << >>
    ELSE RenderSlot(sym, mask, SlotOrder[i]) \o RenderFrom(sym, mask, i + 1)

render_with_mask(sym, mask) == RenderFrom(sym, mask, 1)

\* the listing's maximum occupied-grid width
MaxGridWidth(rows, mask) ==
    MaxOf({ Len(render_with_mask(rows[i].symbols, mask)) :
                i \in 1..Len(rows) })

\* some row of the listing has a user status
AnyUserStatus(rows) == \E i \in 1..Len(rows) : rows[i].user_status # << >>

Spaces(n) == [i \in 1..n |-> " "]

\* variant of the status cell that pads only as far as the row's own grid
render_status_unpadded(row, mask, max_width, any_suffix) ==
    render_with_mask(row.symbols, mask) \o row.user_status

\* the status cell of a row: the grid, padded to the listing's maximum grid
\* width when some row has a user status, then the row's user status
render_status(row, mask, max_width, any_suffix) ==
    LET grid == render_with_mask(row.symbols, mask)
    IN  IF any_suffix
        THEN grid \o Spaces(max_width - Len(grid)) \o row.user_status
        ELSE grid

\* the layout variables while no layout is computed
LayoutParked ==
    /\ show_full = FALSE
    /\ fetch_ci = FALSE
    /\ items = << >>
    /\ maxima = ZeroMaxima
    /\ scanned = 0
    /\ ideal_widths = IdealWidths(ZeroMaxima)
    /\ data_flags = NoFlags
    /\ max_path_width = 0
    /\ terminal_width = 0
    /\ remaining = 0
    /\ widths = ZeroWidths
    /\ positions = ZeroPositions
    /\ pc = "scan"
    /\ step = 0

StatusInit ==
    /\ LayoutParked
    /\ OutputParked
    /\ ConfigParked
    /\ st_rows = << >>
    /\ st_builder = << >>
    /\ st_mask = {}
    /\ st_out = << >>
    /\ st_pc = "rows"

\* one more row of the listing
AddStatusRow ==
    /\ st_pc = "rows"
    /\ Len(st_rows) < MaxStatusRows
    /\ \E sym \in TestSymbols, us \in UserStatuses :
           st_rows' = Append(st_rows, [symbols |-> sym, user_status |-> us])
    /\ UNCHANGED << st_builder, st_mask, st_out, st_pc >>
    /\ UNCHANGED << layout_vars, output_vars, config_vars >>

\* `let mask = PositionMask::from_symbols(&mask_builder)` as in the tests
MaskFromSymbols ==
    /\ st_pc = "rows"
    /\ \E b \in TestSymbols :
           /\ st_builder' = << b >>
           /\ st_mask' = from_symbols(b)
    /\ st_pc' = "render"
    /\ UNCHANGED << st_rows, st_out >>
    /\ UNCHANGED << layout_vars, output_vars, config_vars >>

\* the mask reduced from all rows of the listing
MaskFromListing ==
    /\ st_pc = "rows"
    /\ st_builder' = [i \in 1..Len(st_rows) |-> st_rows[i].symbols]
    /\ st_mask' = ListingMask(st_rows)
    /\ st_pc' = "render"
    /\ UNCHANGED << st_rows, st_out >>
    /\ UNCHANGED << layout_vars, output_vars, config_vars >>

\* render the next row
RenderRow ==
    /\ st_pc = "render"
    /\ Len(st_out) < Len(st_rows)
    /\ LET row == st_rows[Len(st_out) + 1]
       IN  st_out' = Append(st_out,
               [grid |-> render_with_mask(row.symbols, st_mask),
                cell |-> render_status(row, st_mask,
                                       MaxGridWidth(st_rows, st_mask),
                                       AnyUserStatus(st_rows))])
    /\ UNCHANGED << st_rows, st_builder, st_mask, st_pc >>
    /\ UNCHANGED << layout_vars, output_vars, config_vars >>

\* all rows are rendered
FinishRender ==
    /\ st_pc = "render"
    /\ Len(st_out) = Len(st_rows)
    /\ st_pc' = "done"
    /\ UNCHANGED << st_rows, st_builder, st_mask, st_out >>
    /\ UNCHANGED << layout_vars, output_vars, config_vars >>

StatusNext ==
    \/ AddStatusRow
    \/ MaskFromSymbols
    \/ MaskFromListing
    \/ RenderRow
    \/ FinishRender

StatusSpec == StatusInit /\ [][StatusNext]_vars

(* ------------------------ status column claims ------------------------ *)

SingletonSlots == Slots \ {"working_tree"}

\* the characters that can stand for a symbol of a position
SlotChars(slot) ==
    CASE slot = "branch_state" -> {"="}
      [] slot = "git_operation" -> {"R"}
      [] slot = "main_divergence" -> {"v"}
      [] slot = "working_tree" -> {"!", "?", "+"}

\* a row holds a symbol at a position
HasSymbol(sym, slot) ==
    IF slot = "working_tree" THEN sym.working_tree # << >>
    ELSE sym[slot] # "None"

\* width of the field of a position: the symbols, one space, or nothing
FieldWidth(sym, mask, slot) ==
    IF slot \notin mask THEN 0
    ELSE IF slot = "working_tree" /\ sym.working_tree # << >>
      THEN Len(sym.working_tree)
    ELSE 1

\* where the field of SlotOrder[i] starts in a row's grid
RECURSIVE FieldOffset(_, _, _)
FieldOffset(sym, mask, i) ==
    IF i <= 1 THEN 0
    ELSE FieldOffset(sym, mask, i - 1)
           + FieldWidth(sym, mask, SlotOrder[i - 1])

ThreePositions == Symbols("MatchesMain", "None", "Behind", << "!" >>)

\* C21: a rendered grid consists of one field per position of the mask, in
\* canonical order and back to back: the row's symbol(s) of that position
\* or one space; nothing else is in it.  A row rendered against the mask
\* built from itself holds no space, a row without symbols rendered against
\* its own mask is empty, and the three rows of
\* test_three_different_positions come out as "=  ", " v ", "  !".
C21_GridFields ==
    \A k \in 1..Len(st_out) :
        LET sym == st_rows[k].symbols
            g == st_out[k].grid
        IN  /\ \A i \in 1..Len(SlotOrder) :
                   LET slot == SlotOrder[i]
                       off == FieldOffset(sym, st_mask, i)
                       w == FieldWidth(sym, st_mask, slot)
                   IN  slot \in st_mask =>
                           /\ off + w <= Len(g)
                           /\ IF HasSymbol(sym, slot)
                              THEN /\ \A j \in 1..w :
                                          g[off + j] \in SlotChars(slot)
                                   /\ slot = "working_tree" =>
                                          SubSeq(g, off + 1, off + w)
                                            = sym.working_tree
                              ELSE g[off + 1] = " "
            /\ Len(g) = FieldOffset(sym, st_mask, Len(SlotOrder) + 1)
            /\ st_builder = << sym >> => \A j \in 1..Len(g) : g[j] # " "
            /\ (st_builder = << sym >> /\ sym = DefaultSymbols) => g = << >>
            /\ st_builder = << ThreePositions >> =>
                   /\ sym = Symbols("MatchesMain", "None", "None", << >>)
                          => g = << "=", " ", " " >>
                   /\ sym = Symbols("None", "None", "Behind", << >>)
                          => g = << " ", "v", " " >>
                   /\ sym = Symbols("None", "None", "None", << "!" >>)
                          => g = << " ", " ", "!" >>

\* C21 witness: a row with only the middle one of three mask positions has
\* been rendered.
C21_Witness ==
    /\ st_builder = << ThreePositions >>
    /\ Len(st_out) >= 1
    /\ st_rows[1].symbols = Symbols("None", "None", "Behind", << >>)
    /\ st_out[1].grid = << " ", "v", " " >>

\* number of grid cells of a rendered row: the working tree run is one cell
GridCells(k) ==
    LET run == st_rows[k].symbols.working_tree
    IN  Len(st_out[k].grid)
          - (IF "working_tree" \in st_mask /\ run # << >>
             THEN Len(run) - 1 ELSE 0)

\* C22: under one mask the length of a row's grid is the number of
\* singleton positions of the mask, plus the length of the row's working
\* tree run if the mask has the working tree position and the run is not
\* empty, plus 1 if the mask has the position and the run is empty; so with
\* the run counted as one cell all rows have the same number of cells.
C22_EqualGridWidth ==
    /\ \A k \in 1..Len(st_out) :
           LET run == st_rows[k].symbols.working_tree
           IN  Len(st_out[k].grid)
                 = Cardinality(st_mask \cap SingletonSlots)
                   + (IF "working_tree" \notin st_mask THEN 0
                      ELSE IF run # << >> THEN Len(run)
                      ELSE 1)
    /\ \A k1, k2 \in 1..Len(st_out) : GridCells(k1) = GridCells(k2)

\* C22 witness: two rows rendered under a mask with the working tree
\* position, one with a two-symbol run and one without a run.
C22_Witness ==
    /\ Len(st_out) = 2
    /\ "working_tree" \in st_mask
    /\ Len(st_rows[1].symbols.working_tree) = 2
    /\ st_rows[2].symbols.working_tree = << >>
    /\ Len(st_out[1].grid) = Len(st_out[2].grid) + 1

\* C23: the mask holds exactly the positions at which one of the symbols
\* it was built from is present; every rendered row has as many cells as
\* the mask has positions, and a position outside the mask puts no
\* character into any row's grid.
C23_MinimalGrid ==
    st_pc \in {"render", "done"} =>
        /\ st_mask = { slot \in Slots :
                          \E j \in 1..Len(st_builder) :
                              HasSymbol(st_builder[j], slot) }
        /\ \A k \in 1..Len(st_out) :
               /\ GridCells(k) = Cardinality(st_mask)
               /\ \A slot \in Slots \ st_mask :
                      \A j \in 1..Len(st_out[k].grid) :
                          st_out[k].grid[j] \notin SlotChars(slot)

\* C23 witness: test_position_mask_removes_unused_positions: a mask of two
\* positions and a two-character grid, and a row whose symbol lies outside
\* a mask is rendered without it.
C23_Witness ==
    /\ st_mask = {"branch_state", "working_tree"}
    /\ Len(st_out) = 2
    /\ st_rows[1].symbols = Symbols("MatchesMain", "None", "None", << >>)
    /\ st_out[1].grid = << "=", " " >>
    /\ st_rows[2].symbols.main_divergence = "Behind"

Paths == { "/wt/a", "/wt/b" }
Branches == { "feat", "main" }
ShellCommands == { "make", "ls" }

\* SwitchResult
SwitchResults ==
    [kind : {"ExistingWorktree"}, path : Paths, created_branch : {FALSE}]
      \cup [kind : {"CreatedWorktree"}, path : Paths,
            created_branch : BOOLEAN]

\* RemoveResult
RemoveResults ==
    [kind : {"AlreadyOnDefault", "SwitchedToDefault"}, branch : Branches]
      \cup [kind : {"RemovedWorktree"}, primary_path : Paths]

\* Option<&str>: << >> is None, << cmd >> is Some(cmd)
ExecuteOptions == { << >> } \cup { << c >> : c \in ShellCommands }

\* Shell::is_integration_configured(): None or Some(config_path)
IntegrationOptions == { << >>, << "/home/.zshrc" >> }

format_switch_message(result, branch) ==
    IF result.kind = "ExistingWorktree"
    THEN << "Switched to worktree for", branch >>
    ELSE IF result.created_branch
      THEN << "Created new worktree for", branch, "Path:", result.path >>
    ELSE << "Added worktree for", branch, "Path:", result.path >>

format_remove_message(result) ==
    CASE result.kind = "AlreadyOnDefault" ->
             << "Already on default branch", result.branch >>
      [] result.kind = "RemovedWorktree" ->
             << "Removed worktree and returned to primary", "Path:",
                result.primary_path >>
      [] result.kind = "SwitchedToDefault" ->
             << "Switched to default branch", result.branch >>

shell_integration_hint(configured) ==
    IF configured # << >>
    THEN << "Shell integration configured. Restart your shell or run: source",
            configured[1] >>
    ELSE << "To enable automatic cd, run: wt configure-shell" >>

\* enum Directive
ChangeDirectory(path) == [kind |-> "ChangeDirectory", arg |-> << path >>]
Execute(cmd) == [kind |-> "Execute", arg |-> << cmd >>]
Message(msg) == [kind |-> "Message", arg |-> msg]

\* one write! of write_to_stdout
WriteOf(directive) ==
    CASE directive.kind = "ChangeDirectory" ->
             << "__WORKTRUNK_CD__", directive.arg, "NUL" >>
      [] directive.kind = "Execute" ->
             << "__WORKTRUNK_EXEC__", directive.arg, "NUL" >>
      [] directive.kind = "Message" -> << "", directive.arg, "NUL" >>

\* stdout.write_all(b"\n") and println!()
NewlineWrite == << "", << >>, "LF" >>

\* println!("{}", text)
LineWrite(text) == << "", text, "LF" >>

\* variant of the switch directives with the command ahead of the message
SwitchDirectives_execute_first(result, branch, execute) ==
    << ChangeDirectory(result.path) >>
      \o (IF execute # << >> THEN << Execute(execute[1]) >> ELSE << >>)
      \o << Message(format_switch_message(result, branch)) >>

\* the directives handle_switch_output adds in internal mode
SwitchDirectives(result, branch, execute) ==
    << ChangeDirectory(result.path),
       Message(format_switch_message(result, branch)) >>
      \o (IF execute # << >> THEN << Execute(execute[1]) >> ELSE << >>)

\* `if let RemoveResult::RemovedWorktree { primary_path } = result`
RemoveNeedsDirectives(result) == result.kind = "RemovedWorktree"

\* the directives handle_remove_output adds in internal mode
RemoveDirectives(result) ==
    << ChangeDirectory(result.primary_path),
       Message(format_remove_message(result)) >>

\* variant of the hint condition that holds for every result
RemoveShowsHint_always(result) == TRUE

\* `matches!(result, RemoveResult::RemovedWorktree { .. })`
RemoveShowsHint(result) == result.kind = "RemovedWorktree"

IsSwitch == out_call.fn = "switch"
IsRemove == out_call.fn = "remove"

OutputInit ==
    /\ LayoutParked
    /\ StatusParked
    /\ ConfigParked
    /\ out_call = << >>
    /\ directives = << >>
    /\ stdout = << >>
    /\ executed = << >>
    /\ out_ret = << >>
    /\ out_pc = "idle"

\* handle_switch_output(result, branch, execute, internal) is called
CallSwitch ==
    /\ out_pc = "idle"
    /\ \E result \in SwitchResults, branch \in Branches,
          execute \in ExecuteOptions, internal \in BOOLEAN :
           out_call' = [fn |-> "switch", result |-> result,
                        branch |-> branch, execute |-> execute,
                        internal |-> internal]
    /\ out_pc' = "entry"
    /\ UNCHANGED << directives, stdout, executed, out_ret >>
    /\ UNCHANGED << layout_vars, status_vars, config_vars >>

\* handle_remove_output(result, internal) is called
CallRemove ==
    /\ out_pc = "idle"
    /\ \E result \in RemoveResults, internal \in BOOLEAN :
           out_call' = [fn |-> "remove", result |-> result,
                        branch |-> "", execute |-> << >>,
                        internal |-> internal]
    /\ out_pc' = "entry"
    /\ UNCHANGED << directives, stdout, executed, out_ret >>
    /\ UNCHANGED << layout_vars, status_vars, config_vars >>

\* internal mode: DirectiveOutput::new() and the output.add calls
BuildDirectives ==
    /\ out_pc = "entry"
    /\ out_call.internal
    /\ IsRemove => RemoveNeedsDirectives(out_call.result)
    /\ directives' =
           IF IsSwitch
           THEN SwitchDirectives(out_call.result, out_call.branch,
                                 out_call.execute)
           ELSE RemoveDirectives(out_call.result)
    /\ out_pc' = "write"
    /\ UNCHANGED << out_call, stdout, executed, out_ret >>
    /\ UNCHANGED << layout_vars, status_vars, config_vars >>

\* internal mode of handle_remove_output for the other results
SkipDirectives ==
    /\ out_pc = "entry"
    /\ out_call.internal
    /\ IsRemove /\ ~RemoveNeedsDirectives(out_call.result)
    /\ out_ret' = << "Ok" >>
    /\ out_pc' = "returned"
    /\ UNCHANGED << out_call, directives, stdout, executed >>
    /\ UNCHANGED << layout_vars, status_vars, config_vars >>

\* write_to_stdout: the write! of the next directive succeeds
WriteDirective ==
    /\ out_pc = "write"
    /\ Len(stdout) < Len(directives)
    /\ stdout' = Append(stdout, WriteOf(directives[Len(stdout) + 1]))
    /\ UNCHANGED << out_call, directives, executed, out_ret, out_pc >>
    /\ UNCHANGED << layout_vars, status_vars, config_vars >>

\* write_to_stdout: the final newline is written and Ok(()) returned
WriteNewline ==
    /\ out_pc = "write"
    /\ Len(stdout) = Len(directives)
    /\ stdout' = Append(stdout, NewlineWrite)
    /\ out_ret' = << "Ok" >>
    /\ out_pc' = "returned"
    /\ UNCHANGED << out_call, directives, executed >>
    /\ UNCHANGED << layout_vars, status_vars, config_vars >>

\* write_to_stdout: a write fails; `?` and map_err return CommandFailed
WriteFails ==
    /\ out_pc = "write"
    /\ out_ret' = << "Err", "CommandFailed", "io error" >>
    /\ out_pc' = "returned"
    /\ UNCHANGED << out_call, directives, stdout, executed >>
    /\ UNCHANGED << layout_vars, status_vars, config_vars >>

\* non-internal mode: println!("{}", format_..._message(..))
PrintMessage ==
    /\ out_pc = "entry"
    /\ ~out_call.internal
    /\ stdout' = Append(stdout,
           LineWrite(IF IsSwitch
                     THEN format_switch_message(out_call.result,
                                                out_call.branch)
                     ELSE format_remove_message(out_call.result)))
    /\ out_pc' = "after_message"
    /\ UNCHANGED << out_call, directives, executed, out_ret >>
    /\ UNCHANGED << layout_vars, status_vars, config_vars >>

\* println!() and execute_command_in_worktree(result.path(), cmd)?
ExecuteCommand ==
    /\ out_pc = "after_message"
    /\ IsSwitch /\ out_call.execute # << >>
    /\ stdout' = Append(stdout, NewlineWrite)
    /\ \E outcome \in {"success", "exit_nonzero", "spawn_failed"} :
           /\ executed' =
                  IF outcome = "spawn_failed" THEN executed
                  ELSE Append(executed, [dir |-> out_call.result.path,
                                         command |-> out_call.execute[1]])
           /\ out_ret' =
                  CASE outcome = "success" -> << "Ok" >>
                    [] outcome = "exit_nonzero" ->
                           << "Err", "CommandFailed", "exit code" >>
                    [] outcome = "spawn_failed" ->
                           << "Err", "CommandFailed", "Failed to execute" >>
    /\ out_pc' = "returned"
    /\ UNCHANGED << out_call, directives >>
    /\ UNCHANGED << layout_vars, status_vars, config_vars >>

\* println!(); println!("{}", shell_integration_hint())
PrintHint ==
    /\ out_pc = "after_message"
    /\ \/ IsSwitch /\ out_call.execute = << >>
       \/ IsRemove /\ RemoveShowsHint(out_call.result)
    /\ \E configured \in IntegrationOptions :
           stdout' = stdout \o << NewlineWrite,
                                  LineWrite(shell_integration_hint(configured)) >>
    /\ out_ret' = << "Ok" >>
    /\ out_pc' = "returned"
    /\ UNCHANGED << out_call, directives, executed >>
    /\ UNCHANGED << layout_vars, status_vars, config_vars >>

\* handle_remove_output, non-internal, no hint: Ok(())
ReturnAfterMessage ==
    /\ out_pc = "after_message"
    /\ IsRemove /\ ~RemoveShowsHint(out_call.result)
    /\ out_ret' = << "Ok" >>
    /\ out_pc' = "returned"
    /\ UNCHANGED << out_call, directives, stdout, executed >>
    /\ UNCHANGED << layout_vars, status_vars, config_vars >>

OutputNext ==
    \/ CallSwitch
    \/ CallRemove
    \/ BuildDirectives
    \/ SkipDirectives
    \/ WriteDirective
    \/ WriteNewline
    \/ WriteFails
    \/ PrintMessage
    \/ ExecuteCommand
    \/ PrintHint
    \/ ReturnAfterMessage

OutputSpec == OutputInit /\ [][OutputNext]_vars

(* ----------------------- output handler claims ------------------------ *)

IsPrefix(a, b) == Len(a) <= Len(b) /\ a = SubSeq(b, 1, Len(a))

Returned_out == out_pc = "returned"

\* some entry of stdout is a directive
DirectiveWritten ==
    \E i \in 1..Len(stdout) : stdout[i][1] # "" \/ stdout[i][3] = "NUL"

\* the hint was printed
HintPrinted ==
    \E i \in 1..Len(stdout), configured \in IntegrationOptions :
        stdout[i] = << "", shell_integration_hint(configured), "LF" >>

\* C25: in internal mode handle_switch_output runs nothing and writes, in
\* this order, the ChangeDirectory directive with the worktree path, the
\* Message directive, the Execute directive exactly if a command was given,
\* each NUL-terminated, and one newline; stdout is at every moment a prefix
\* of that and the whole of it when Ok is returned.  In non-internal mode
\* no directive is written, the message is the first line, the command (if
\* any) runs only after it, and when the handler has returned the hint was
\* printed exactly if no command was given.
C25_SwitchProtocol ==
    (out_pc # "idle" /\ IsSwitch) =>
        LET result == out_call.result
            msg == IF result.kind = "ExistingWorktree"
                   THEN << "Switched to worktree for", out_call.branch >>
                   ELSE << IF result.created_branch
                           THEN "Created new worktree for"
                           ELSE "Added worktree for",
                           out_call.branch, "Path:", result.path >>
            expected ==
                << << "__WORKTRUNK_CD__", << result.path >>, "NUL" >>,
                   << "", msg, "NUL" >> >>
                  \o (IF out_call.execute # << >>
                      THEN << << "__WORKTRUNK_EXEC__", out_call.execute,
                                 "NUL" >> >>
                      ELSE << >>)
                  \o << << "", << >>, "LF" >> >>
        IN  IF out_call.internal
            THEN /\ executed = << >>
                 /\ IsPrefix(stdout, expected)
                 /\ (Returned_out /\ out_ret = << "Ok" >>)
                        => stdout = expected
                 /\ (Returned_out /\ out_ret # << "Ok" >>)
                        => stdout # expected
            ELSE /\ ~DirectiveWritten
                 /\ directives = << >>
                 /\ Len(stdout) >= 1 => stdout[1] = << "", msg, "LF" >>
                 /\ executed # << >> =>
                        /\ Len(stdout) >= 1
                        /\ out_call.execute # << >>
                        /\ executed = << [dir |-> result.path,
                                          command |-> out_call.execute[1]] >>
                 /\ HintPrinted => out_call.execute = << >>
                 /\ Returned_out =>
                        /\ Len(stdout) >= 1
                        /\ HintPrinted <=> out_call.execute = << >>
                        /\ (out_call.execute # << >> /\ out_ret = << "Ok" >>)
                               => executed # << >>

\* C25 witness: internal mode returned Ok after writing the three
\* directives and the newline.
C25_Witness ==
    /\ out_pc = "returned"
    /\ IsSwitch
    /\ out_call.internal
    /\ out_call.execute = << "make" >>
    /\ out_ret = << "Ok" >>
    /\ Len(stdout) = 4
    /\ stdout[3] = << "__WORKTRUNK_EXEC__", << "make" >>, "NUL" >>

\* C26: in internal mode handle_remove_output writes directives only for
\* RemovedWorktree, and then the ChangeDirectory directive with the primary
\* path, the Message directive and the newline; for AlreadyOnDefault and
\* SwitchedToDefault it writes nothing and returns Ok.  In non-internal
\* mode the message is always printed, first, and the hint is printed
\* exactly for RemovedWorktree.  No command is run.
C26_RemoveProtocol ==
    (out_pc # "idle" /\ IsRemove) =>
        LET result == out_call.result
            removed == result.kind = "RemovedWorktree"
            msg == IF removed
                   THEN << "Removed worktree and returned to primary",
                           "Path:", result.primary_path >>
                   ELSE << IF result.kind = "AlreadyOnDefault"
                           THEN "Already on default branch"
                           ELSE "Switched to default branch",
                           result.branch >>
        IN  /\ executed = << >>
            /\ IF out_call.internal
               THEN IF removed
                    THEN LET expected ==
                                 << << "__WORKTRUNK_CD__",
                                       << result.primary_path >>, "NUL" >>,
                                    << "", msg, "NUL" >>,
                                    << "", << >>, "LF" >> >>
                         IN  /\ IsPrefix(stdout, expected)
                             /\ (Returned_out /\ out_ret = << "Ok" >>)
                                    => stdout = expected
                    ELSE /\ stdout = << >>
                         /\ directives = << >>
                         /\ Returned_out => out_ret = << "Ok" >>
               ELSE /\ ~DirectiveWritten
                    /\ Len(stdout) >= 1 => stdout[1] = << "", msg, "LF" >>
                    /\ HintPrinted => removed
                    /\ Returned_out =>
                           /\ Len(stdout) >= 1
                           /\ out_ret = << "Ok" >>
                           /\ HintPrinted <=> removed

\* C26 witness: non-internal mode returned after printing the message and
\* no hint.
C26_Witness ==
    /\ out_pc = "returned"
    /\ IsRemove
    /\ ~out_call.internal
    /\ out_call.result.kind = "SwitchedToDefault"
    /\ Len(stdout) = 1

(***************************************************************************)
(* Project configuration (src/commands/project_config.rs).  A Result is a  *)
(* pair << "Ok", payload >> or << "Err", error >>; an Option payload is    *)
(* << >> for None and << x >> for Some(x); an error is a tuple of strings. *)
(***************************************************************************)

RepoRoots == { "/repo", "/repo/wt1", "/repo/wt2", "/src/a", "/src/b", "/tmp/r" }
ProjectConfigs == { "cfg_hooks", "cfg_empty", "cfg_full" }
RootErrors == { "not a git repository", "git failed", "bare repository" }
LoadErrors == { "invalid toml", "permission denied", "unknown field" }

\* what repo.worktree_root() can answer
RootResults ==
    { << "Ok", << r >> >> : r \in RepoRoots }
      \cup { << "Err", << e >> >> : e \in RootErrors }

\* what ProjectConfig::load(repo_root) can answer
LoadResults ==
    { << "Ok", << c >> >> : c \in ProjectConfigs }
      \cup { << "Ok", << >> >> }
      \cup { << "Err", << e >> >> : e \in LoadErrors }

\* GitResultExt::git_context: an error gets the context put in front
git_context(result, context) ==
    IF result[1] = "Err" THEN << "Err", << context >> \o result[2] >>
    ELSE result

\* variant of load_project_config_at that turns a failure into "no config"
load_project_config_at_lenient(loaded) ==
    IF loaded[1] = "Err" THEN << "Ok", << >> >> ELSE loaded

\* load_project_config_at, given the answer of ProjectConfig::load
load_project_config_at(loaded) ==
    git_context(loaded, "Failed to load project config")

\* repo_root.join(".config").join("wt.toml")
config_path(repo_root) == << repo_root, ".config", "wt.toml" >>

NoConfigError == << "Err", << "CommandFailed", "No project configuration found" >> >>

ConfigInit ==
    /\ LayoutParked
    /\ StatusParked
    /\ OutputParked
    /\ cfg_call = << >>
    /\ stderr = << >>
    /\ cfg_ret = << >>
    /\ cfg_pc = "idle"

\* load_project_config(repo) is called
CallLoad ==
    /\ cfg_pc = "idle"
    /\ cfg_call' = [fn |-> "load", root |-> << >>, loaded |-> << >>]
    /\ cfg_pc' = "root"
    /\ UNCHANGED << stderr, cfg_ret >>
    /\ UNCHANGED << layout_vars, status_vars, output_vars >>

\* require_project_config(repo) is called
CallRequire ==
    /\ cfg_pc = "idle"
    /\ cfg_call' = [fn |-> "require", root |-> << >>, loaded |-> << >>]
    /\ cfg_pc' = "root"
    /\ UNCHANGED << stderr, cfg_ret >>
    /\ UNCHANGED << layout_vars, status_vars, output_vars >>

\* `let repo_root = repo.worktree_root()?;`
ResolveRoot ==
    /\ cfg_pc = "root"
    /\ \E answer \in RootResults :
           /\ cfg_call' = [cfg_call EXCEPT !.root = answer]
           /\ IF answer[1] = "Err"
              THEN cfg_ret' = answer /\ cfg_pc' = "returned"
              ELSE cfg_ret' = cfg_ret /\ cfg_pc' = "load"
    /\ UNCHANGED stderr
    /\ UNCHANGED << layout_vars, status_vars, output_vars >>

\* load_project_config: `load_project_config_at(&repo_root)` is the result
LoadAndReturn ==
    /\ cfg_pc = "load"
    /\ cfg_call.fn = "load"
    /\ \E answer \in LoadResults :
           /\ cfg_call' = [cfg_call EXCEPT !.loaded = answer]
           /\ cfg_ret' = load_project_config_at(answer)
    /\ cfg_pc' = "returned"
    /\ UNCHANGED stderr
    /\ UNCHANGED << layout_vars, status_vars, output_vars >>

\* require_project_config: `match load_project_config_at(&repo_root)?`
LoadAndMatch ==
    /\ cfg_pc = "load"
    /\ cfg_call.fn = "require"
    /\ \E answer \in LoadResults :
           /\ cfg_call' = [cfg_call EXCEPT !.loaded = answer]
           /\ LET r == load_project_config_at(answer)
              IN  IF r[1] = "Err"
                    THEN cfg_ret' = r /\ cfg_pc' = "returned"
                  ELSE IF r[2] # << >>
                    THEN cfg_ret' = << "Ok", r[2] >> /\ cfg_pc' = "returned"
                  ELSE cfg_ret' = cfg_ret /\ cfg_pc' = "missing"
    /\ UNCHANGED stderr
    /\ UNCHANGED << layout_vars, status_vars, output_vars >>

\* the None arm: the first eprintln!
EmitError ==
    /\ cfg_pc = "missing"
    /\ stderr' = Append(stderr, << "No project configuration found" >>)
    /\ cfg_pc' = "hint"
    /\ UNCHANGED << cfg_call, cfg_ret >>
    /\ UNCHANGED << layout_vars, status_vars, output_vars >>

\* the None arm: the second eprintln! and the Err returned
EmitHint ==
    /\ cfg_pc = "hint"
    /\ stderr' = Append(stderr, << "Create a config file at:" >>
                                  \o config_path(cfg_call.root[2][1]))
    /\ cfg_ret' = NoConfigError
    /\ cfg_pc' = "returned"
    /\ UNCHANGED cfg_call
    /\ UNCHANGED << layout_vars, status_vars, output_vars >>

ConfigNext ==
    \/ CallLoad
    \/ CallRequire
    \/ ResolveRoot
    \/ LoadAndReturn
    \/ LoadAndMatch
    \/ EmitError
    \/ EmitHint

ConfigSpec == ConfigInit /\ [][ConfigNext]_vars

(* -------------------- project configuration claim --------------------- *)

\* the two lines require_project_config prints for a missing config
MissingConfigLines(root) ==
    << << "No project configuration found" >>,
       << "Create a config file at:", root, ".config", "wt.toml" >> >>

\* C30: require_project_config returns Ok(config) exactly when the load
\* found a config; when the load found none it returns
\* Err(CommandFailed("No project configuration found")) with the two hint
\* lines already on stderr; when resolving the worktree root fails that
\* error is returned as it is, and when loading fails the load error is
\* returned (under its context), in both cases with nothing on stderr.
\* load_project_config never prints and returns Ok(None) when the load
\* found no config.
C30_RequireProjectConfig ==
    cfg_pc # "idle" =>
        LET root == cfg_call.root
            loaded == cfg_call.loaded
            found == loaded # << >> /\ loaded[1] = "Ok" /\ loaded[2] # << >>
            absent == loaded # << >> /\ loaded[1] = "Ok" /\ loaded[2] = << >>
            root_failed == root # << >> /\ root[1] = "Err"
            load_failed == loaded # << >> /\ loaded[1] = "Err"
        IN  /\ stderr # << >> => (cfg_call.fn = "require" /\ absent)
            /\ IsPrefix(stderr, MissingConfigLines(
                                    IF root # << >> /\ root[1] = "Ok"
                                    THEN root[2][1] ELSE ""))
            /\ cfg_pc = "returned" =>
                   /\ cfg_ret # << >>
                   /\ root_failed =>
                          (cfg_ret = root /\ loaded = << >> /\ stderr = << >>)
                   /\ load_failed =>
                          /\ cfg_ret[1] = "Err"
                          /\ cfg_ret[2][Len(cfg_ret[2])] = loaded[2][1]
                          /\ cfg_ret[2][1] = "Failed to load project config"
                          /\ stderr = << >>
                   /\ cfg_call.fn = "require" =>
                          /\ cfg_ret[1] = "Ok" <=> found
                          /\ found => cfg_ret = << "Ok", loaded[2] >>
                          /\ absent =>
                                 /\ cfg_ret = << "Err", << "CommandFailed",
                                       "No project configuration found" >> >>
                                 /\ stderr = MissingConfigLines(root[2][1])
                   /\ cfg_call.fn = "load" =>
                          /\ stderr = << >>
                          /\ absent => cfg_ret = << "Ok", << >> >>
                          /\ found => cfg_ret = loaded

\* C30 witness: require_project_config returned the missing-config error
\* after printing both lines.
C30_Witness ==
    /\ cfg_pc = "returned"
    /\ cfg_call.fn = "require"
    /\ cfg_ret = NoConfigError
    /\ Len(stderr) = 2

====
